---- MODULE Spec2Model ----
(***************************************************************************)
(* Model of app.py: the URL classifier (extract_video_id), the response    *)
(* normalizer (_snippets_to_text), the tiered transcript fetcher           *)
(* (fetch_transcript_any_version), the two document loaders and the button *)
(* handler that drives them.                                               *)
(*                                                                         *)
(* Python strings are sequences of one-character strings, so that regular  *)
(* expression search, substring tests, join and strip are computed rather  *)
(* than assumed.                                                           *)
(***************************************************************************)
EXTENDS Integers, Sequences, FiniteSets, TLC

VARIABLES
    \* extract_video_id applied to one URL
    eurl, eres, epc,
    \* _snippets_to_text applied to one raw response
    nraw, nres, nprev, npc,
    \* one click of the button: inputs, environment, position, observations
    url, key, svc, pc, idx, handle, kw, listing,
    calls, last, text, error, docs, webCalls, sumCalls

evars == <<eurl, eres, epc>>
nvars == <<nraw, nres, nprev, npc>>
pvars == <<url, key, svc, pc, idx, handle, kw, listing,
           calls, last, text, error, docs, webCalls, sumCalls>>
vars == <<evars, nvars, pvars>>

----------------------------------------------------------------------------
(* Bounds of the model *)

\* longest tail appended to a URL prefix in the extract_video_id inputs
MaxTail == 4
\* most entries in a raw transcript response
MaxEntries == 2
\* most transcripts in a list_transcripts() listing
MaxListing == 2

----------------------------------------------------------------------------
(* Strings *)

Min(S) == CHOOSE x \in S : \A y \in S : x <= y
Max(S) == CHOOSE x \in S : \A y \in S : x >= y

\* s[i:].startswith(p), 1-based
IsPrefixAt(p, s, i) ==
    /\ i >= 1
    /\ i + Len(p) - 1 <= Len(s)
    /\ \A k \in 1..Len(p) : s[i + k - 1] = p[k]

\* Python's "sub in s"
Contains(s, sub) == \E i \in 1..(Len(s) + 1) : IsPrefixAt(sub, s, i)

\* Python's str.strip() (the only whitespace of the model is the blank)
StripNothing(s) == s
Strip(s) ==
    LET keep == {i \in 1..Len(s) : s[i] # " "}
    IN  IF keep = {} THEN <<>> ELSE SubSeq(s, Min(keep), Max(keep))

\* Python's sep.join(parts)
RECURSIVE Join(_, _)
Join(parts, sep) ==
    IF parts = <<>> THEN <<>>
    ELSE IF Len(parts) = 1 THEN parts[1]
    ELSE parts[1] \o sep \o Join(Tail(parts), sep)

Https == <<"h", "t", "t", "p", "s", ":", "/", "/">>
Www == <<"w", "w", "w", ".">>
YoutubeCom == <<"y", "o", "u", "t", "u", "b", "e", ".", "c", "o", "m">>
YoutuBe == <<"y", "o", "u", "t", "u", ".", "b", "e">>
ExampleCom == <<"e", "x", "a", "m", "p", "l", "e", ".", "c", "o", "m">>

----------------------------------------------------------------------------
(* extract_video_id *)

\* One pattern "lit([^stop]+)": a literal, then a captured greedy run of
\* characters outside stop, at least one long.
patterns ==
    << [lit |-> <<"v", "=">>, stop |-> {"&"}],
       [lit |-> YoutuBe \o <<"/">>, stop |-> {"?", "&"}],
       [lit |-> YoutubeCom \o <<"/", "s", "h", "o", "r", "t", "s", "/">>,
        stop |-> {"?", "&", "/"}],
       [lit |-> YoutubeCom \o <<"/", "e", "m", "b", "e", "d", "/">>,
        stop |-> {"?", "&", "/"}] >>

\* positions where pattern p matches in s
MatchStarts(p, s) ==
    {i \in 1..Len(s) :
        /\ IsPrefixAt(p.lit, s, i)
        /\ i + Len(p.lit) <= Len(s)
        /\ s[i + Len(p.lit)] \notin p.stop}

\* last index of the run of characters outside stop that starts at b
RunEnd(s, b, stop) ==
    LET bad == {k \in b..Len(s) : s[k] \in stop}
    IN  IF bad = {} THEN Len(s) ELSE Min(bad) - 1

\* re.search(p, s): the leftmost match, its group captured greedily
NoMatch == [matched |-> FALSE, group |-> <<>>]
re_search(p, s) ==
    LET starts == MatchStarts(p, s)
    IN  IF starts = {} THEN NoMatch
        ELSE LET b == Min(starts) + Len(p.lit)
             IN  [matched |-> TRUE, group |-> SubSeq(s, b, RunEnd(s, b, p.stop))]

\* the result of extract_video_id: the identifier, or ValueError raised
InvalidYouTubeURL == [ok |-> FALSE, id |-> <<>>]
extract_video_id(u) ==
    LET hits == {k \in 1..Len(patterns) : re_search(patterns[k], u).matched}
    IN  IF hits = {} THEN InvalidYouTubeURL
        ELSE [ok |-> TRUE, id |-> re_search(patterns[Min(hits)], u).group]

----------------------------------------------------------------------------
(* Python values seen by _snippets_to_text *)

\* the value of a "text" field: a str, a number (not zero), or None
PyStr(s) == [ty |-> "str", s |-> s]
PyInt == [ty |-> "int", s |-> <<>>]
PyNoneText == [ty |-> "none", s |-> <<>>]
EmptyStr == PyStr(<<>>)

\* Python truthiness: a non-empty str, a non-zero number, not None
Truthy(v) == IF v.ty = "str" THEN v.s # <<>> ELSE v.ty = "int"

\* One entry of a response.  shape "dict": a mapping, with or without a
\* "text" key.  shape "obj": any other object, with or without a text
\* attribute, with or without a to_dict() that raises or returns a mapping
\* with or without a "text" key.
DictEntry(has, t) ==
    [shape |-> "dict", hasText |-> has, text |-> t,
     hasToDict |-> FALSE, toDictOk |-> FALSE, dHasText |-> FALSE, dtext |-> EmptyStr]
ObjEntry(has, t, hasTd, tdOk, dHas, dt) ==
    [shape |-> "obj", hasText |-> has, text |-> t,
     hasToDict |-> hasTd, toDictOk |-> tdOk, dHasText |-> dHas, dtext |-> dt]

\* A raw response.  kind "none": None; "int": a value that is not iterable;
\* "dict": a mapping (it has an items method); "list": a sequence of
\* entries; "obj": an object whose attributes snippets, segments, items are
\* each "absent", "noniter" (present, not iterable) or "elems" (the sequence).
Raw(k, es, a1, a2, a3) ==
    [kind |-> k, elems |-> es, snippets |-> a1, segments |-> a2, items |-> a3]
PyNone == Raw("none", <<>>, "absent", "absent", "absent")
PyNonIterable == Raw("int", <<>>, "absent", "absent", "absent")
PyMapping == Raw("dict", <<>>, "absent", "absent", "noniter")
PyList(es) == Raw("list", es, "absent", "absent", "absent")
PyObject(es, a1, a2, a3) == Raw("obj", es, a1, a2, a3)

----------------------------------------------------------------------------
(* _snippets_to_text *)

\* lines 39-42: the first of snippets, segments, items that the value has;
\* the result is "elems" (the sequence), "noniter", or "self" (no unwrapping)
UnwrapItemsFirst(raw) ==
    IF raw.items # "absent" THEN raw.items
    ELSE IF raw.segments # "absent" THEN raw.segments
    ELSE IF raw.snippets # "absent" THEN raw.snippets
    ELSE "self"
Unwrap(raw) ==
    IF raw.snippets # "absent" THEN raw.snippets
    ELSE IF raw.segments # "absent" THEN raw.segments
    ELSE IF raw.items # "absent" THEN raw.items
    ELSE "self"

\* whether "for s in snippets" can iterate the (unwrapped) value
Iterable(raw) ==
    LET u == Unwrap(raw)
    IN  IF u = "self" THEN raw.kind = "list" ELSE u = "elems"

\* line 48: s.get("text", "")
DictTextWrongKey(s) == EmptyStr
DictText(s) == IF s.hasText THEN s.text ELSE EmptyStr

\* lines 50-55: getattr(s, "text", ""), then to_dict() when that is falsy
ObjTextNoConversion(s) == IF s.hasText THEN s.text ELSE EmptyStr
ObjText(s) ==
    LET t == IF s.hasText THEN s.text ELSE EmptyStr
    IN  IF ~Truthy(t) /\ s.hasToDict
        THEN IF s.toDictOk /\ s.dHasText THEN s.dtext ELSE EmptyStr
        ELSE t

\* lines 47-55
EntryText(s) == IF s.shape = "dict" THEN DictText(s) ELSE ObjText(s)

\* lines 44-57: the truthy texts, in order
KeptTexts(es) == SelectSeq([i \in 1..Len(es) |-> EntryText(es[i])], Truthy)

\* the result of _snippets_to_text: a str, or TypeError raised by join
NormOk(s) == [ok |-> TRUE, s |-> s]
NormTypeError == [ok |-> FALSE, s |-> <<>>]
snippets_to_text(raw) ==
    IF raw.kind = "none" THEN NormOk(<<>>)
    ELSE IF ~Iterable(raw) THEN NormOk(<<>>)
    ELSE LET kept == KeptTexts(raw.elems)
         IN  IF \E i \in 1..Len(kept) : kept[i].ty # "str"
             THEN NormTypeError
             ELSE NormOk(Strip(Join([i \in 1..Len(kept) |-> kept[i].s], <<" ">>)))

----------------------------------------------------------------------------
(* Inputs of the two pure functions *)

TailChars == {"a", "v", "=", "&", "?", "/", "#"}
UrlPrefixes ==
    { Https \o Www \o YoutubeCom \o <<"/", "w", "a", "t", "c", "h", "?">>,
      Https \o Www \o YoutubeCom
          \o <<"/", "w", "a", "t", "c", "h", "?", "v", "=", "a", "b", "c", "1", "2", "3">>,
      Https \o YoutuBe \o <<"/", "x", "y", "z", "7", "8", "9">>,
      Https \o Www \o YoutubeCom \o <<"/", "s", "h", "o", "r", "t", "s", "/", "s", "1">>,
      Https \o Www \o YoutubeCom \o <<"/", "e", "m", "b", "e", "d", "/", "e", "1">>,
      Https \o ExampleCom \o <<"/">> }
TextValues == {EmptyStr, PyStr(<<"a">>), PyStr(<<" ", "b", " ">>), PyInt, PyNoneText}
DictEntries ==
    {DictEntry(FALSE, EmptyStr)} \cup {DictEntry(TRUE, t) : t \in TextValues}
ToDictOptions ==
    {<<FALSE, FALSE, FALSE, EmptyStr>>, <<TRUE, FALSE, FALSE, EmptyStr>>,
     <<TRUE, TRUE, FALSE, EmptyStr>>}
        \cup {<<TRUE, TRUE, TRUE, t>> : t \in TextValues}
ObjEntries ==
    {ObjEntry(FALSE, EmptyStr, d[1], d[2], d[3], d[4]) : d \in ToDictOptions}
        \cup {ObjEntry(TRUE, t, d[1], d[2], d[3], d[4]) :
                 t \in TextValues, d \in ToDictOptions}
Entries == DictEntries \cup ObjEntries
AttrConfigs ==
    {<<"elems", "absent", "absent">>, <<"absent", "elems", "absent">>,
     <<"absent", "absent", "elems">>, <<"noniter", "elems", "absent">>,
     <<"absent", "elems", "noniter">>, <<"absent", "absent", "absent">>}
\* a sequence of entries as a response: bare, or held by a container object
Wrappings == {<<"bare", "absent", "absent", "absent">>}
                 \cup {<<"obj", a[1], a[2], a[3]>> : a \in AttrConfigs}
Wrap(es, w) == IF w[1] = "bare" THEN PyList(es) ELSE PyObject(es, w[2], w[3], w[4])

----------------------------------------------------------------------------
(* The environment of one click *)

\* line 65: the default language preference list
preferred_langs == <<"en", "en-US", "hi", "ne">>
NLangs == Len(preferred_langs)

\* What one call of the transcript library does: it raises ("Exception" or
\* "TypeError"), or it returns a raw response.
Raises(kind) == [raises |-> kind, data |-> PyNone]
Returns(d) == [raises |-> "none", data |-> d]
Responses ==
    { PyNone,
      PyList(<<>>),
      PyList(<<DictEntry(TRUE, PyStr(<<" ">>))>>),
      PyList(<<DictEntry(TRUE, PyInt)>>),
      PyList(<<DictEntry(TRUE, PyStr(<<"o", "k">>))>>),
      PyList(<<DictEntry(TRUE, PyStr(<<" ", "b", " ">>))>>),
      PyObject(<<ObjEntry(TRUE, PyStr(<<"h", "i">>), FALSE, FALSE, FALSE, EmptyStr),
                 ObjEntry(FALSE, EmptyStr, TRUE, TRUE, TRUE, PyStr(<<"y", "o">>))>>,
               "elems", "absent", "absent") }
Outcomes == {Raises("Exception"), Raises("TypeError")} \cup {Returns(d) : d \in Responses}

\* What UnstructuredURLLoader.load() does: it raises or returns documents.
LoaderOutcomes ==
    { [raises |-> TRUE, docs |-> <<>>],
      [raises |-> FALSE, docs |-> <<>>],
      [raises |-> FALSE, docs |-> << <<"w">> >>],
      [raises |-> FALSE, docs |-> << <<"w">>, <<"x">> >>] }

\* which calling conventions the installed library has (the hasattr probes)
Services ==
    [hasGet : BOOLEAN, hasList : BOOLEAN, hasClassFetch : BOOLEAN, hasInstFetch : BOOLEAN]

HandlerUrls ==
    { <<>>,
      Https \o Www \o YoutubeCom
          \o <<"/", "w", "a", "t", "c", "h", "?", "v", "=", "a", "b", "c", "1", "2", "3">>,
      Https \o YoutuBe \o <<"/", "x", "y", "z", "7", "8", "9", "?", "t", "=", "5">>,
      Https \o Www \o YoutubeCom \o <<"/", "p", "l", "a", "y", "l", "i", "s", "t">>,
      Https \o ExampleCom \o <<"/">>,
      Https \o ExampleCom \o <<"/", "?", "v", "=", "1">> }
HandlerKeys == {<<>>, <<" ">>, <<"k">>}

----------------------------------------------------------------------------
(* fetch_transcript_any_version, one service call per step *)

\* lines 72-74 and the like: the text an attempt produced, "" when the call
\* raised, when _snippets_to_text raised, or when the text is empty
AttemptText(o) ==
    IF o.raises # "none" THEN <<>>
    ELSE LET r == snippets_to_text(o.data)
         IN  IF r.ok THEN r.s ELSE <<>>

\* one entry of the log of transcript-library calls
Call(tier, op, lang, n, arg) ==
    [tier |-> tier, op |-> op, lang |-> lang, n |-> n, arg |-> arg, got |-> <<>>]

\* a position of the handler, with the error it fails with at "failed"
Pos(p, i, h, k, e) == [pc |-> p, idx |-> i, handle |-> h, kw |-> k, error |-> e]
Goto(pos) ==
    /\ pc' = pos.pc
    /\ idx' = pos.idx
    /\ handle' = pos.handle
    /\ kw' = pos.kw
    /\ error' = pos.error

\* lines 127-131
TranscriptUnavailable == Pos("failed", 0, 0, 0, "TranscriptUnavailable")
\* an exception of the transcript library that no except clause catches
ServiceException == Pos("failed", 0, 0, 0, "ServiceException")

\* how a call of the library ended, as the except clauses see it: the call
\* raised TypeError or another exception, _snippets_to_text raised, or the
\* text was empty or not
HowEnded(o) ==
    IF o.raises # "none" THEN o.raises
    ELSE IF ~snippets_to_text(o.data).ok THEN "NormalizeError"
    ELSE IF AttemptText(o) = <<>> THEN "empty"
    ELSE "text"

\* One guarded attempt (try: data = call; text = _snippets_to_text(data);
\* if text: return text; except Exception: pass), followed by more.
AttemptNoReturn(call, o, more) ==
    /\ calls' = Append(calls, [call EXCEPT !.got = AttemptText(o)])
    /\ last' = HowEnded(o)
    /\ text' = IF AttemptText(o) # <<>> THEN AttemptText(o) ELSE text
    /\ Goto(more)
Attempt(call, o, more) ==
    /\ calls' = Append(calls, [call EXCEPT !.got = AttemptText(o)])
    /\ last' = HowEnded(o)
    /\ IF AttemptText(o) # <<>>
       THEN /\ text' = AttemptText(o)
            /\ Goto(Pos("assemble", 0, 0, 0, "none"))
       ELSE /\ text' = text
            /\ Goto(more)

\* line 68
ProbeGetTranscript ==
    /\ pc = "tierA"
    /\ Goto(IF svc.hasGet THEN Pos("A_lang", 1, 0, 0, "none")
                          ELSE Pos("tierB", 0, 0, 0, "none"))
    /\ UNCHANGED <<evars, nvars, url, key, svc, listing, calls, last, text, docs, webCalls, sumCalls>>

\* where Tier A goes after preferred language i gave nothing (lines 69, 77)
AfterLangDefaultEarly(i) == Pos("A_default", 0, 0, 0, "none")
AfterLang(i) ==
    IF i < NLangs THEN Pos("A_lang", i + 1, 0, 0, "none")
                  ELSE Pos("A_default", 0, 0, 0, "none")

\* lines 69-76
GetTranscriptLang ==
    /\ pc = "A_lang"
    /\ \E o \in Outcomes :
          Attempt(Call("A", "get_transcript", preferred_langs[idx], 0, "languages"), o,
                  AfterLang(idx))
    /\ UNCHANGED <<evars, nvars, url, key, svc, listing, docs, webCalls, sumCalls>>

\* lines 77-83
GetTranscriptDefault ==
    /\ pc = "A_default"
    /\ \E o \in Outcomes :
          Attempt(Call("A", "get_transcript", "-", 0, "none"), o,
                  Pos("tierB", 0, 0, 0, "none"))
    /\ UNCHANGED <<evars, nvars, url, key, svc, listing, docs, webCalls, sumCalls>>

\* line 86
ProbeListTranscripts ==
    /\ pc = "tierB"
    /\ Goto(IF svc.hasList THEN Pos("B_list", 0, 0, 0, "none")
                           ELSE Pos("tierC", 0, 0, 0, "none"))
    /\ UNCHANGED <<evars, nvars, url, key, svc, listing, calls, last, text, docs, webCalls, sumCalls>>

\* line 87, outside every try: the listing of m transcripts, or the exception
ListTranscripts ==
    /\ pc = "B_list"
    /\ calls' = Append(calls, Call("B", "list_transcripts", "-", 0, "none"))
    /\ \E raised \in BOOLEAN, m \in 0..MaxListing :
          IF raised
          THEN Goto(ServiceException) /\ listing' = listing /\ last' = "Exception"
          ELSE Goto(Pos("B_find", 1, 0, 0, "none")) /\ listing' = m /\ last' = "returned"
    /\ UNCHANGED <<evars, nvars, url, key, svc, text, docs, webCalls, sumCalls>>

\* where Tier B goes after preferred language i gave nothing (lines 89, 101)
AfterPreferredIterateEarly(i) ==
    IF listing > 0 THEN Pos("B_iter", 1, 0, 0, "none")
    ELSE IF i < NLangs THEN Pos("B_find", i + 1, 0, 0, "none")
    ELSE Pos("tierC", 0, 0, 0, "none")
AfterPreferred(i) ==
    IF i < NLangs THEN Pos("B_find", i + 1, 0, 0, "none")
    ELSE IF listing > 0 THEN Pos("B_iter", 1, 0, 0, "none")
    ELSE Pos("tierC", 0, 0, 0, "none")

\* line 91: find_transcript([lang]) returns a listed transcript or raises
FindTranscript ==
    /\ pc = "B_find"
    /\ calls' = Append(calls, Call("B", "find_transcript", preferred_langs[idx], 0, "languages"))
    /\ \E found \in {f \in BOOLEAN : f => listing > 0} :
          /\ Goto(IF found THEN Pos("B_fetch", idx, 0, 0, "none") ELSE AfterPreferred(idx))
          /\ last' = IF found THEN "returned" ELSE "Exception"
    /\ UNCHANGED <<evars, nvars, url, key, svc, listing, text, docs, webCalls, sumCalls>>

\* lines 92-97
FetchFound ==
    /\ pc = "B_fetch"
    /\ \E o \in Outcomes :
          Attempt(Call("B", "fetch", preferred_langs[idx], 0, "none"), o, AfterPreferred(idx))
    /\ UNCHANGED <<evars, nvars, url, key, svc, listing, docs, webCalls, sumCalls>>

\* lines 100-110: the idx-th transcript of the listing
FetchListed ==
    /\ pc = "B_iter"
    /\ \E o \in Outcomes :
          Attempt(Call("B", "fetch", "-", idx, "none"), o,
                  IF idx < listing THEN Pos("B_iter", idx + 1, 0, 0, "none")
                                   ELSE Pos("tierC", 0, 0, 0, "none"))
    /\ UNCHANGED <<evars, nvars, url, key, svc, listing, docs, webCalls, sumCalls>>

\* line 113: the tuple (YouTubeTranscriptApi, YouTubeTranscriptApi()) is built
\* before the loop starts, outside every try
ConstructInstance ==
    /\ pc = "tierC"
    /\ calls' = Append(calls, Call("C", "construct", "-", 0, "none"))
    /\ \E raised \in BOOLEAN :
          /\ Goto(IF raised THEN ServiceException ELSE Pos("C_probe", 0, 1, 0, "none"))
          /\ last' = IF raised THEN "Exception" ELSE "returned"
    /\ UNCHANGED <<evars, nvars, url, key, svc, listing, text, docs, webCalls, sumCalls>>

\* handle 1 is the class, handle 2 the instance
HasFetch(h) == IF h = 1 THEN svc.hasClassFetch ELSE svc.hasInstFetch

\* line 113: the next handle, or the end of the function
AfterHandle(h) ==
    IF h < 2 THEN Pos("C_probe", 0, h + 1, 0, "none") ELSE TranscriptUnavailable

\* line 114
ProbeFetch ==
    /\ pc = "C_probe"
    /\ Goto(IF HasFetch(handle) THEN Pos("C_call", 1, handle, 1, "none")
                                ELSE AfterHandle(handle))
    /\ UNCHANGED <<evars, nvars, url, key, svc, listing, calls, last, text, docs, webCalls, sumCalls>>

\* lines 115-125: kw 1 is {"languages": [lang]}, kw 2 is {}; TypeError and
\* every other exception are both passed over
FetchGeneric ==
    /\ pc = "C_call"
    /\ \E o \in Outcomes :
          Attempt(Call("C", "fetch", preferred_langs[idx], handle,
                       IF kw = 1 THEN "languages" ELSE "none"), o,
                  IF kw < 2 THEN Pos("C_call", idx, handle, 2, "none")
                  ELSE IF idx < NLangs THEN Pos("C_call", idx + 1, handle, 1, "none")
                  ELSE AfterHandle(handle))
    /\ UNCHANGED <<evars, nvars, url, key, svc, listing, docs, webCalls, sumCalls>>

FetchTranscript ==
    \/ ProbeGetTranscript
    \/ GetTranscriptLang
    \/ GetTranscriptDefault
    \/ ProbeListTranscripts
    \/ ListTranscripts
    \/ FindTranscript
    \/ FetchFound
    \/ FetchListed
    \/ ConstructInstance
    \/ ProbeFetch
    \/ FetchGeneric

----------------------------------------------------------------------------
(* The button handler, load_youtube_docs and load_website_docs *)

\* line 217
IsYoutubeUrl(u) == Contains(u, YoutubeCom) \/ Contains(u, YoutuBe)

\* lines 203-209: the two gates, given the verdict of validators.url()
AfterValidateKeyUnchecked(valid) ==
    IF Strip(url) = <<>> THEN Pos("stopped", 0, 0, 0, "MissingInput")
    ELSE IF ~valid THEN Pos("stopped", 0, 0, 0, "InvalidInputURL")
    ELSE Pos("llm", 0, 0, 0, "none")
AfterValidate(valid) ==
    IF Strip(key) = <<>> \/ Strip(url) = <<>>
        THEN Pos("stopped", 0, 0, 0, "MissingInput")
    ELSE IF ~valid THEN Pos("stopped", 0, 0, 0, "InvalidInputURL")
    ELSE Pos("llm", 0, 0, 0, "none")

\* lines 203-209; validators.url() is a collaborator whose verdict is an input
Validate ==
    /\ pc = "clicked"
    /\ \E valid \in BOOLEAN : Goto(AfterValidate(valid))
    /\ UNCHANGED <<evars, nvars, url, key, svc, listing, calls, last, text, docs, webCalls, sumCalls>>

\* line 214
CreateLLM ==
    /\ pc = "llm"
    /\ \E raised \in BOOLEAN :
          Goto(IF raised THEN Pos("failed", 0, 0, 0, "LLMException")
                         ELSE Pos("load", 0, 0, 0, "none"))
    /\ UNCHANGED <<evars, nvars, url, key, svc, listing, calls, last, text, docs, webCalls, sumCalls>>

\* lines 217-220 and 135: the branch taken, and the ValueError of
\* extract_video_id on the video branch
AfterClassifyFallsBack(u) ==
    IF IsYoutubeUrl(u) /\ extract_video_id(u).ok THEN Pos("tierA", 0, 0, 0, "none")
    ELSE Pos("web", 0, 0, 0, "none")
AfterClassify(u) ==
    IF IsYoutubeUrl(u)
    THEN IF extract_video_id(u).ok THEN Pos("tierA", 0, 0, 0, "none")
                                   ELSE Pos("failed", 0, 0, 0, "InvalidURLKind")
    ELSE Pos("web", 0, 0, 0, "none")

LoadDocs ==
    /\ pc = "load"
    /\ Goto(AfterClassify(url))
    /\ UNCHANGED <<evars, nvars, url, key, svc, listing, calls, last, text, docs, webCalls, sumCalls>>

\* lines 157-160: what load_website_docs does with the loader's outcome
Loaded(pos, d) == [pos |-> pos, docs |-> d]
AfterWebsiteLoadNoCheck(out) ==
    IF out.raises THEN Loaded(Pos("failed", 0, 0, 0, "LoaderException"), <<>>)
    ELSE Loaded(Pos("summarize", 0, 0, 0, "none"), out.docs)
AfterWebsiteLoadRetry(out) ==
    IF out.raises THEN Loaded(Pos("failed", 0, 0, 0, "LoaderException"), <<>>)
    ELSE IF out.docs = <<>> /\ Len(webCalls) < 1
        THEN Loaded(Pos("web", 0, 0, 0, "none"), <<>>)
    ELSE IF out.docs = <<>>
        THEN Loaded(Pos("failed", 0, 0, 0, "WebsiteUnavailable"), <<>>)
    ELSE Loaded(Pos("summarize", 0, 0, 0, "none"), out.docs)
AfterWebsiteLoad(out) ==
    IF out.raises THEN Loaded(Pos("failed", 0, 0, 0, "LoaderException"), <<>>)
    ELSE IF out.docs = <<>>
        THEN Loaded(Pos("failed", 0, 0, 0, "WebsiteUnavailable"), <<>>)
    ELSE Loaded(Pos("summarize", 0, 0, 0, "none"), out.docs)

\* lines 146-160
LoadWebsite ==
    /\ pc = "web"
    /\ \E out \in LoaderOutcomes :
          /\ webCalls' = Append(webCalls, out)
          /\ Goto(AfterWebsiteLoad(out).pos)
          /\ docs' = AfterWebsiteLoad(out).docs
    /\ UNCHANGED <<evars, nvars, url, key, svc, listing, calls, last, text, sumCalls>>

\* lines 137-139: what load_youtube_docs does with the fetched text
AfterFetch(t) ==
    IF t = <<>> THEN Loaded(Pos("failed", 0, 0, 0, "EmptyContent"), <<>>)
    ELSE Loaded(Pos("summarize", 0, 0, 0, "none"), <<t>>)

Assemble ==
    /\ pc = "assemble"
    /\ Goto(AfterFetch(text).pos)
    /\ docs' = AfterFetch(text).docs
    /\ UNCHANGED <<evars, nvars, url, key, svc, listing, calls, last, text, webCalls, sumCalls>>

\* lines 223-236: chain.run(docs) returns the summary or raises
Summarize ==
    /\ pc = "summarize"
    /\ sumCalls' = Append(sumCalls, docs)
    /\ \E raised \in BOOLEAN :
          Goto(IF raised THEN Pos("failed", 0, 0, 0, "SummarizerException")
                         ELSE Pos("done", 0, 0, 0, "none"))
    /\ UNCHANGED <<evars, nvars, url, key, svc, listing, calls, last, text, docs, webCalls>>

----------------------------------------------------------------------------
(* The two pure functions applied to their inputs *)

\* lines 21-32
ExtractVideoId ==
    /\ epc = "start"
    /\ eres' = extract_video_id(eurl)
    /\ epc' = "done"
    /\ UNCHANGED <<eurl, nvars, pvars>>

\* lines 35-60
Normalize ==
    /\ npc = "start"
    /\ nres' = snippets_to_text(nraw)
    /\ npc' = "normalized"
    /\ UNCHANGED <<nraw, nprev, evars, pvars>>

\* lines 35-60 again, on the returned text wrapped as the one entry of a list
NormalizeOutput ==
    /\ npc = "normalized"
    /\ nres.ok
    /\ nprev' = nres.s
    /\ nraw' = PyList(<<DictEntry(TRUE, PyStr(nres.s))>>)
    /\ nres' = snippets_to_text(nraw')
    /\ npc' = "renormalized"
    /\ UNCHANGED <<evars, pvars>>

----------------------------------------------------------------------------
(* Specifications *)

ExtractIdle == eurl = <<>> /\ eres = InvalidYouTubeURL /\ epc = "idle"
NormalizeIdle == nraw = PyNone /\ nres = NormOk(<<>>) /\ nprev = <<>> /\ npc = "idle"
HandlerIdle ==
    /\ url = <<>> /\ key = <<>> /\ svc = [hasGet |-> FALSE, hasList |-> FALSE,
                                         hasClassFetch |-> FALSE, hasInstFetch |-> FALSE]
    /\ pc = "idle" /\ idx = 0 /\ handle = 0 /\ kw = 0 /\ listing = 0
    /\ calls = <<>> /\ last = "none" /\ text = <<>> /\ error = "none" /\ docs = <<>>
    /\ webCalls = <<>> /\ sumCalls = <<>>

\* one click of the button, for every input and every installed library
Init ==
    /\ url \in HandlerUrls
    /\ key \in HandlerKeys
    /\ svc \in Services
    /\ pc = "clicked" /\ idx = 0 /\ handle = 0 /\ kw = 0 /\ listing = 0
    /\ calls = <<>> /\ last = "none" /\ text = <<>> /\ error = "none" /\ docs = <<>>
    /\ webCalls = <<>> /\ sumCalls = <<>>
    /\ ExtractIdle
    /\ NormalizeIdle

Next ==
    \/ Validate
    \/ CreateLLM
    \/ LoadDocs
    \/ LoadWebsite
    \/ FetchTranscript
    \/ Assemble
    \/ Summarize

Spec == Init /\ [][Next]_vars

\* extract_video_id on every prefix followed by every tail of at most
\* MaxTail characters
InitExtract ==
    /\ \E p \in UrlPrefixes, k \in 0..MaxTail :
          \E t \in [1..k -> TailChars] : eurl = p \o t
    /\ eres = InvalidYouTubeURL
    /\ epc = "start"
    /\ NormalizeIdle
    /\ HandlerIdle

SpecExtract == InitExtract /\ [][ExtractVideoId]_vars

\* _snippets_to_text on None, on a non-iterable, on a mapping, and on every
\* sequence of at most MaxEntries entries, bare or held by a container
InitNormalize ==
    /\ \/ nraw \in {PyNone, PyNonIterable, PyMapping}
       \/ \E k \in 0..MaxEntries, w \in Wrappings :
             \E es \in [1..k -> Entries] : nraw = Wrap(es, w)
    /\ nres = NormOk(<<>>)
    /\ nprev = <<>>
    /\ npc = "start"
    /\ ExtractIdle
    /\ HandlerIdle

NextNormalize == Normalize \/ NormalizeOutput

SpecNormalize == InitNormalize /\ [][NextNormalize]_vars

----------------------------------------------------------------------------
(* Properties of fetch_transcript_any_version *)

Last(q) == q[Len(q)]

\* the fetch ended without a text: an exception left fetch_transcript_any_version
FetchFailed == pc = "failed" /\ calls # <<>> /\ text = <<>>

\* C1: an exception or an empty result of one transcript-service operation
\* (a get_transcript call, the list_transcripts call, find_transcript or
\* fetch on a listed transcript, the construction of the instance, a generic
\* fetch) never ends the fetch: the only error that leaves it is the final
\* TranscriptUnavailable.
C1_OnlyTranscriptUnavailableEscapes ==
    FetchFailed => error = "TranscriptUnavailable"

TierRank(c) == IF c.tier = "A" THEN 1 ELSE IF c.tier = "B" THEN 2 ELSE 3
LangRank(l) == IF l = "-" THEN 0 ELSE CHOOSE i \in 1..NLangs : preferred_langs[i] = l

\* C2: the fetch returns the text of the first attempt whose normalized text
\* is non-empty and calls the transcript service no more after it: every
\* earlier call gave no text, the calls went tier by tier (A, then B, then C)
\* and language by language in preference order, so a text from Tier A means
\* no call of Tier B or C, and a text from Tier B no call of Tier C.
C2_ShortCircuit ==
    text # <<>> =>
        /\ calls # <<>>
        /\ Last(calls).got = text
        /\ \A i \in 1..(Len(calls) - 1) : calls[i].got = <<>>
        /\ \A i, j \in 1..Len(calls) :
              i < j =>
                /\ TierRank(calls[i]) <= TierRank(calls[j])
                /\ ( /\ calls[i].lang # "-" /\ calls[j].lang # "-"
                     /\ calls[i].tier = calls[j].tier /\ calls[i].op = calls[j].op
                     /\ calls[i].n = calls[j].n /\ calls[i].arg = calls[j].arg )
                   => LangRank(calls[i].lang) < LangRank(calls[j].lang)

\* Tier A failed for all four languages and the default, Tier B returned "ok"
C2_Witness ==
    /\ text = <<"o", "k">>
    /\ Len(calls) > NLangs + 1
    /\ calls[1].tier = "A"
    /\ Last(calls).tier = "B"
    /\ pc = "done"

Made(tier, op, lang, n, arg) ==
    \E i \in 1..Len(calls) :
        /\ calls[i].tier = tier /\ calls[i].op = op /\ calls[i].lang = lang
        /\ calls[i].n = n /\ calls[i].arg = arg

\* every (convention, language) combination of the conventions the library has
AllCombinationsAttempted ==
    /\ svc.hasGet =>
          /\ \A i \in 1..NLangs : Made("A", "get_transcript", preferred_langs[i], 0, "languages")
          /\ Made("A", "get_transcript", "-", 0, "none")
    /\ svc.hasList =>
          /\ Made("B", "list_transcripts", "-", 0, "none")
          /\ \A i \in 1..NLangs : Made("B", "find_transcript", preferred_langs[i], 0, "languages")
          /\ \A k \in 1..listing : Made("B", "fetch", "-", k, "none")
    /\ \A h \in 1..2 :
          HasFetch(h) =>
              \A i \in 1..NLangs : Made("C", "fetch", preferred_langs[i], h, "languages")

\* C3: when no convention yields a text for any language, the fetch fails
\* with TranscriptUnavailable, and only after every available (convention,
\* language) combination of Tiers A, B and C was attempted.
C3_FallbackExhaustion ==
    FetchFailed => (error = "TranscriptUnavailable" /\ AllCombinationsAttempted)

----------------------------------------------------------------------------
(* Properties of extract_video_id *)

\* the index just after the first occurrence of lit in u (0 when there is none)
AfterFirst(u, lit) ==
    LET at == {i \in 1..Len(u) : IsPrefixAt(lit, u, i)}
    IN  IF at = {} THEN 0 ELSE Min(at) + Len(lit)

\* the characters of u from index b up to the first character of stop
Segment(u, b, stop) ==
    LET ends == {k \in b..Len(u) : u[k] \in stop}
    IN  SubSeq(u, b, IF ends = {} THEN Len(u) ELSE Min(ends) - 1)

\* the index of the value of the query parameter named v (0 when there is none)
VParamValue(u) ==
    LET at == {i \in 2..Len(u) : IsPrefixAt(<<"v", "=">>, u, i) /\ u[i - 1] \in {"?", "&"}}
    IN  IF at = {} THEN 0 ELSE Min(at) + 2

ShortLit == YoutuBe \o <<"/">>
ShortsLit == YoutubeCom \o <<"/", "s", "h", "o", "r", "t", "s", "/">>
EmbedLit == YoutubeCom \o <<"/", "e", "m", "b", "e", "d", "/">>
WatchLit == YoutubeCom \o <<"/", "w", "a", "t", "c", "h", "?">>

\* the identifier the URL's shape designates ("" when the URL has no shape)
ExpectedId(u) ==
    IF Contains(u, WatchLit)
        THEN IF VParamValue(u) = 0 THEN <<>> ELSE Segment(u, VParamValue(u), {"&"})
    ELSE IF Contains(u, ShortLit) THEN Segment(u, AfterFirst(u, ShortLit), {"?", "&"})
    ELSE IF Contains(u, ShortsLit) THEN Segment(u, AfterFirst(u, ShortsLit), {"?", "&", "/"})
    ELSE IF Contains(u, EmbedLit) THEN Segment(u, AfterFirst(u, EmbedLit), {"?", "&", "/"})
    ELSE <<>>

UrlDelimiters == {"?", "&", "/", "#", "="}

\* C4: for a URL of one of the four video shapes extract_video_id returns
\* the identifier of that shape: the value of the v= parameter up to the
\* next "&"; for youtu.be/ID with any query string exactly ID; for shorts/
\* and embed/ the path segment up to the first "?", "&" or "/".  (Stated
\* for the URLs whose identifier is a plain token, free of delimiters.)
C4_ExpectedIdentifier ==
    ( /\ epc = "done"
      /\ ExpectedId(eurl) # <<>>
      /\ \A i \in 1..Len(ExpectedId(eurl)) : ExpectedId(eurl)[i] \notin UrlDelimiters ) =>
        eres = [ok |-> TRUE, id |-> ExpectedId(eurl)]

\* C5: every identifier extract_video_id returns is non-empty and has no
\* URL delimiter ("?", "&", "/", "#", "=") in it.
C5_IdentifierHasNoDelimiter ==
    (epc = "done" /\ eres.ok) =>
        /\ eres.id # <<>>
        /\ \A i \in 1..Len(eres.id) : eres.id[i] \notin UrlDelimiters

----------------------------------------------------------------------------
(* Properties of _snippets_to_text *)

\* C6: _snippets_to_text never fails: whatever the input, it returns a str
\* and raises nothing, and it returns "" for None, for an empty sequence and
\* for a value that is not iterable.
C6_NormalizeNeverFails ==
    npc = "normalized" =>
        /\ nres.ok
        /\ nraw \in {PyNone, PyList(<<>>), PyNonIterable} => nres.s = <<>>

\* the three entry shapes of the claim, each carrying one caption text
IsMappingEntry(e) == e.shape = "dict" /\ e.hasText /\ e.text.ty = "str"
IsAttributeEntry(e) ==
    e.shape = "obj" /\ e.hasText /\ e.text.ty = "str" /\ ~e.hasToDict
IsConvertibleEntry(e) ==
    /\ e.shape = "obj" /\ ~e.hasText
    /\ e.hasToDict /\ e.toDictOk /\ e.dHasText /\ e.dtext.ty = "str"
CaptionText(e) == IF IsConvertibleEntry(e) THEN e.dtext ELSE e.text

\* a sequence of such entries, bare or under exactly one container field
IsSupportedShape(raw) ==
    /\ \/ raw.kind = "list"
       \/ /\ raw.kind = "obj"
          /\ <<raw.snippets, raw.segments, raw.items>> \in
                {<<"elems", "absent", "absent">>, <<"absent", "elems", "absent">>,
                 <<"absent", "absent", "elems">>}
    /\ \A i \in 1..Len(raw.elems) :
          \/ IsMappingEntry(raw.elems[i])
          \/ IsAttributeEntry(raw.elems[i])
          \/ IsConvertibleEntry(raw.elems[i])

\* the same caption texts as a bare list of mappings
AsMappings(raw) ==
    PyList([i \in 1..Len(raw.elems) |-> DictEntry(TRUE, CaptionText(raw.elems[i]))])

\* C7: _snippets_to_text is shape-independent: the same caption texts give
\* the same string whether the entries are mappings, objects with a text
\* attribute or objects converted by to_dict(), and whether the sequence is
\* bare or held under snippets, segments or items.
C7_ShapeIndependent ==
    (npc = "normalized" /\ IsSupportedShape(nraw)) =>
        /\ nres.ok
        /\ nres = snippets_to_text(AsMappings(nraw))

\* a converted entry "a" and an attribute entry " b " held under segments
C7_Witness ==
    /\ npc = "normalized"
    /\ IsSupportedShape(nraw)
    /\ nraw.kind = "obj" /\ nraw.segments = "elems"
    /\ Len(nraw.elems) = 2
    /\ IsConvertibleEntry(nraw.elems[1])
    /\ IsAttributeEntry(nraw.elems[2])
    /\ nres = NormOk(<<"a", " ", " ", "b">>)

\* C8: _snippets_to_text is idempotent on its output: the text it returned,
\* wrapped as the single entry of a sequence, normalizes to itself (the
\* empty text included).
C8_Idempotent ==
    npc = "renormalized" => nres = NormOk(nprev)

\* "a  b", already normalized, comes back unchanged
C8_Witness ==
    /\ npc = "renormalized"
    /\ nprev = <<"a", " ", " ", "b">>
    /\ nres = NormOk(nprev)

----------------------------------------------------------------------------
(* Properties of the button handler *)

\* C9: chain.run is only called with a non-empty document list: on the video
\* path the one document made of the non-empty transcript text, on the
\* website path the loader's non-empty list; when the fetch gives an empty
\* text or an empty list the handler fails and chain.run is not called.
C9_SummarizerGetsDocuments ==
    /\ \A i \in 1..Len(sumCalls) :
          /\ sumCalls[i] # <<>>
          /\ IsYoutubeUrl(url) => (text # <<>> /\ sumCalls[i] = <<text>>)
          /\ ~IsYoutubeUrl(url) =>
                (webCalls # <<>> /\ sumCalls[i] = Last(webCalls).docs)
    /\ (webCalls # <<>> /\ Last(webCalls).docs = <<>>) =>
          (pc = "failed" /\ sumCalls = <<>>)
    /\ error \in {"EmptyContent", "WebsiteUnavailable"} => sumCalls = <<>>

\* the summarizer ran on the one document of a fetched transcript
C9_Witness ==
    /\ pc = "done"
    /\ IsYoutubeUrl(url)
    /\ text = <<"h", "i", " ", "y", "o">>
    /\ sumCalls = << <<text>> >>

\* C10: for a generic URL whose loader returns an empty list the handler
\* fails with WebsiteUnavailable: the loader was called once, the transcript
\* service not at all, the summarizer not at all.
C10_WebsiteUnavailable ==
    ( /\ ~IsYoutubeUrl(url)
      /\ webCalls # <<>>
      /\ ~Last(webCalls).raises
      /\ Last(webCalls).docs = <<>> ) =>
        /\ pc = "failed"
        /\ error = "WebsiteUnavailable"
        /\ Len(webCalls) = 1
        /\ calls = <<>>
        /\ sumCalls = <<>>

\* a generic URL, the loader returned no document
C10_Witness ==
    /\ url = Https \o ExampleCom \o <<"/">>
    /\ webCalls = <<[raises |-> FALSE, docs |-> <<>>]>>
    /\ error = "WebsiteUnavailable"

\* nothing of the pipeline has run: no transcript-service call, no website
\* fetch, no summarizer call, no text and no document
NoWorkDone ==
    /\ calls = <<>> /\ last = "none" /\ webCalls = <<>> /\ sumCalls = <<>>
    /\ text = <<>> /\ docs = <<>>

BlankInput == Strip(key) = <<>> \/ Strip(url) = <<>>

\* C11: the input gates precede all work: with a blank URL or a blank key
\* the handler stops with MissingInput, with a malformed URL it stops with
\* InvalidInputURL, and in both cases before classification: no transcript
\* call, no website fetch and no summarizer call is made in that request.
C11_GatesPrecedeWork ==
    /\ (BlankInput /\ pc # "clicked") =>
          (pc = "stopped" /\ error = "MissingInput" /\ NoWorkDone)
    /\ error = "MissingInput" => (BlankInput /\ pc = "stopped" /\ NoWorkDone)
    /\ error = "InvalidInputURL" => (~BlankInput /\ pc = "stopped" /\ NoWorkDone)
    /\ pc = "stopped" => error \in {"MissingInput", "InvalidInputURL"}
    /\ pc \in {"clicked", "llm", "load"} => NoWorkDone

\* a video URL with a blank key: stopped before anything ran
C11_Witness ==
    /\ pc = "stopped"
    /\ error = "MissingInput"
    /\ IsYoutubeUrl(url)
    /\ key = <<" ">>
    /\ NoWorkDone

\* a video URL that validators.url() rejects: stopped before classification
C11_WitnessInvalid ==
    /\ pc = "stopped"
    /\ error = "InvalidInputURL"
    /\ IsYoutubeUrl(url)
    /\ NoWorkDone

\* the handler got past the classification of lines 217-220
Classified ==
    pc \notin {"clicked", "stopped", "llm", "load"} /\ error # "LLMException"

\* C12: a URL with the video-hosting or short-link domain in it either gives
\* a non-empty identifier or fails with InvalidURLKind when no pattern
\* matches; that failure ends the request at once: no transcript-service
\* call, no website fetch instead, no summarizer call, no retry.  A URL is
\* classified one way only: a video URL never reaches the website loader, a
\* generic URL never the transcript service.
C12_VideoUrlOrInvalidKind ==
    /\ (Classified /\ IsYoutubeUrl(url)) =>
          /\ webCalls = <<>>
          /\ IF extract_video_id(url).ok
             THEN extract_video_id(url).id # <<>> /\ error # "InvalidURLKind"
             ELSE /\ pc = "failed" /\ error = "InvalidURLKind"
                  /\ calls = <<>> /\ sumCalls = <<>> /\ text = <<>> /\ docs = <<>>
    /\ (Classified /\ ~IsYoutubeUrl(url)) =>
          (calls = <<>> /\ text = <<>> /\ error # "InvalidURLKind")
    /\ error = "InvalidURLKind" => (IsYoutubeUrl(url) /\ ~extract_video_id(url).ok)

\* a youtube.com URL that none of the four patterns matches
C12_Witness ==
    /\ url = Https \o Www \o YoutubeCom \o <<"/", "p", "l", "a", "y", "l", "i", "s", "t">>
    /\ pc = "failed"
    /\ error = "InvalidURLKind"
    /\ calls = <<>> /\ webCalls = <<>> /\ sumCalls = <<>>

\* C13: in Tier C, for each handle that has fetch (the class, then the
\* instance) and each language in order, the call with the language list
\* comes first, and the call without arguments is made only when that
\* language-list call was rejected with TypeError: not when it failed with
\* another exception or gave an empty text.
C13_NoArgumentCallOnlyAfterTypeError ==
    /\ \A i \in 1..Len(calls) :
          (calls[i].tier = "C" /\ calls[i].op = "fetch" /\ calls[i].arg = "none") =>
              /\ i > 1
              /\ calls[i - 1] = Call("C", "fetch", calls[i].lang, calls[i].n, "languages")
    /\ (pc = "C_call" /\ kw = 2) => last = "TypeError"

\* the calls of one tier, in the order they were made
IsTierA(c) == c.tier = "A"
TierACalls == SelectSeq(calls, IsTierA)
\* the call Tier A makes k-th: language k, then the call without languages
TierACall(k) ==
    IF k <= NLangs THEN Call("A", "get_transcript", preferred_langs[k], 0, "languages")
                   ELSE Call("A", "get_transcript", "-", 0, "none")
PastTierA ==
    pc \in {"tierB", "B_list", "B_find", "B_fetch", "B_iter", "tierC", "C_probe", "C_call"}

\* C14: with get_transcript present, the k-th Tier A call asks for the k-th
\* preferred language, one call per language; the call without a language is
\* made once, after all the per-language calls gave nothing; the first call
\* that gives a non-empty text ends the tier and its text is what is
\* returned, so an earlier language wins over a later one.
C14_TierAOrder ==
    LET A == TierACalls
    IN  /\ Len(A) <= NLangs + 1
        /\ A # <<>> => svc.hasGet
        /\ \A k \in 1..Len(A) : [A[k] EXCEPT !.got = <<>>] = TierACall(k)
        /\ \A k \in 1..(Len(A) - 1) : A[k].got = <<>>
        /\ pc = "A_lang" => Len(A) = idx - 1
        /\ pc = "A_default" => Len(A) = NLangs
        /\ (PastTierA /\ svc.hasGet) => (Len(A) = NLangs + 1 /\ A[NLangs + 1].got = <<>>)
        /\ (A # <<>> /\ A[Len(A)].got # <<>>) =>
               (Len(calls) = Len(A) /\ text = A[Len(A)].got /\ pc \notin {"A_lang", "A_default"})
\* all the per-language calls gave nothing and the call without a language
\* gave the text
C14_Witness ==
    /\ Len(TierACalls) = NLangs + 1
    /\ TierACalls[NLangs + 1].got # <<>>
    /\ text = TierACalls[NLangs + 1].got
\* the third language gave the text
C14_WitnessThird == Len(TierACalls) = 3 /\ TierACalls[3].got # <<>>

IsTierB(c) == c.tier = "B"
TierBCalls == SelectSeq(calls, IsTierB)
IsFind(c) == c.op = "find_transcript"
IsListedFetch(c) == c.op = "fetch" /\ c.lang = "-"
IsFoundFetch(c) == c.op = "fetch" /\ c.lang # "-"
PastTierB == pc \in {"tierC", "C_probe", "C_call"}

\* C15: with list_transcripts present, the listing is obtained once, as the
\* first call of Tier B; the preferred languages are looked up in order, and a
\* transcript that was found is fetched right after its lookup; the
\* transcripts of the listing are fetched only after all preferred languages
\* gave nothing, in listing order, one fetch each, going on after a fetch that
\* failed or gave nothing; the first fetch that gives a non-empty text ends
\* the search and its text is what is returned.
C15_TierBOrder ==
    LET B == TierBCalls
        finds == SelectSeq(B, IsFind)
        listed == SelectSeq(B, IsListedFetch)
    IN  /\ B # <<>> => (svc.hasList /\ B[1].op = "list_transcripts")
        /\ \A k \in 2..Len(B) : B[k].op # "list_transcripts"
        /\ pc \in {"B_find", "B_fetch", "B_iter"} => B # <<>>
        /\ (PastTierB /\ svc.hasList) =>
               (Len(finds) = NLangs /\ Len(listed) = listing /\ B[Len(B)].got = <<>>)
        /\ Len(finds) <= NLangs
        /\ \A k \in 1..Len(finds) : finds[k].lang = preferred_langs[k]
        /\ \A k \in 1..Len(B) :
              IsFoundFetch(B[k]) =>
                  (k > 1 /\ IsFind(B[k - 1]) /\ B[k - 1].lang = B[k].lang)
        /\ Len(listed) <= listing
        /\ \A k \in 1..Len(listed) : listed[k].n = k
        /\ \A k \in 1..Len(B) :
              IsListedFetch(B[k]) => Len(SelectSeq(SubSeq(B, 1, k), IsFind)) = NLangs
        /\ \A k \in 1..(Len(B) - 1) : B[k].got = <<>>
        /\ (B # <<>> /\ B[Len(B)].got # <<>>) =>
               ( /\ calls[Len(calls)] = B[Len(B)]
                 /\ text = B[Len(B)].got
                 /\ pc \notin {"B_find", "B_fetch", "B_iter"} )
\* no preferred language gave text, the first listed transcript gave nothing
\* and the second one gave the text
C15_Witness ==
    LET B == TierBCalls
    IN  /\ B # <<>>
        /\ IsListedFetch(B[Len(B)])
        /\ B[Len(B)].n = 2
        /\ B[Len(B)].got # <<>>
        /\ text = B[Len(B)].got
\* a preferred language that is not the first was found and gave the text
C15_WitnessPreferred ==
    LET B == TierBCalls
    IN  /\ B # <<>>
        /\ IsFoundFetch(B[Len(B)])
        /\ B[Len(B)].lang = preferred_langs[3]
        /\ B[Len(B)].got # <<>>

NonePresent == ~svc.hasGet /\ ~svc.hasList /\ ~svc.hasClassFetch /\ ~svc.hasInstFetch
\* whether the library has the convention that call c belongs to; building
\* the instance (line 113) belongs to none
ConventionPresent(c) ==
    CASE c.tier = "A" -> svc.hasGet
      [] c.tier = "B" -> svc.hasList
      [] c.tier = "C" /\ c.op = "fetch" -> HasFetch(c.n)
      [] OTHER -> TRUE

\* C16: only operations of calling conventions that the library has are ever
\* called, a missing convention is skipped without an error, and with no
\* convention at all fetch_transcript_any_version fails with
\* TranscriptUnavailable without a single transcript call.
C16_OnlyPresentConventions ==
    /\ \A i \in 1..Len(calls) : ConventionPresent(calls[i])
    /\ NonePresent => \A i \in 1..Len(calls) : calls[i].op = "construct"
    /\ (NonePresent /\ pc = "failed" /\ calls # <<>>) => error = "TranscriptUnavailable"

----------------------------------------------------------------------------
(* The reference that _snippets_to_text is compared with *)

\* the sequence the reference works on: the first present of snippets,
\* segments, items, else the value itself; no entries when that is no sequence
RefSequence(raw) ==
    LET fields == <<raw.snippets, raw.segments, raw.items>>
        present == {k \in 1..3 : fields[k] # "absent"}
    IN  IF present = {}
        THEN IF raw.kind = "list" THEN raw.elems ELSE <<>>
        ELSE IF fields[Min(present)] = "elems" THEN raw.elems ELSE <<>>

\* the text of one entry: the text key of a mapping; the text attribute of an
\* object, or when that is empty the text of its conversion; empty by default
RefEmpty(v) == v = EmptyStr \/ v = PyNoneText
RefText(e) ==
    IF e.shape = "dict" THEN (IF e.hasText THEN e.text ELSE EmptyStr)
    ELSE IF e.hasText /\ ~RefEmpty(e.text) THEN e.text
    ELSE IF e.hasToDict
         THEN (IF e.toDictOk /\ e.dHasText THEN e.dtext ELSE EmptyStr)
         ELSE EmptyStr

\* the non-empty texts, in the original order
RECURSIVE RefKept(_)
RefKept(es) ==
    IF es = <<>> THEN <<>>
    ELSE IF RefEmpty(RefText(Head(es))) THEN RefKept(Tail(es))
    ELSE <<RefText(Head(es))>> \o RefKept(Tail(es))

\* the texts joined with one blank between neighbours
RECURSIVE RefJoin(_)
RefJoin(ts) ==
    IF ts = <<>> THEN <<>>
    ELSE IF Len(ts) = 1 THEN ts[1].s
    ELSE ts[1].s \o <<" ">> \o RefJoin(Tail(ts))

\* leading and trailing blanks removed
RECURSIVE RefTrimLeft(_)
RefTrimLeft(s) == IF s # <<>> /\ Head(s) = " " THEN RefTrimLeft(Tail(s)) ELSE s
RECURSIVE RefTrimRight(_)
RefTrimRight(s) ==
    IF s # <<>> /\ s[Len(s)] = " " THEN RefTrimRight(SubSeq(s, 1, Len(s) - 1)) ELSE s

Reference(raw) == RefTrimRight(RefTrimLeft(RefJoin(RefKept(RefSequence(raw)))))
\* the reference joins strings: it says nothing when a kept text is no string
RefDefined(raw) ==
    \A i \in 1..Len(RefKept(RefSequence(raw))) : RefKept(RefSequence(raw))[i].ty = "str"

\* C17: _snippets_to_text returns what the reference gives: unwrap once by
\* the first present of snippets, segments, items; take the text of each
\* entry in order; drop the empty ones; join with one blank; trim.  Stated
\* for the inputs whose kept texts are all strings (for the others see C6).
C17_NormalizeIsReference ==
    (npc = "normalized" /\ RefDefined(nraw)) => nres = NormOk(Reference(nraw))
\* a container with a non-iterable snippets attribute is not unwrapped
\* further; one with segments before items gives the texts of its entries:
\* here an empty text is dropped between two kept ones, one of them padded
C17_Witness ==
    /\ npc = "normalized"
    /\ nraw.kind = "obj" /\ nraw.snippets = "absent" /\ nraw.segments = "elems"
    /\ nraw.items = "noniter"
    /\ Len(nraw.elems) = 2
    /\ Len(RefKept(nraw.elems)) = 2
    /\ RefKept(nraw.elems)[1].s # RefKept(nraw.elems)[2].s
    /\ nres = NormOk(Reference(nraw))
    /\ nres.s # <<>>
\* an entry with an empty text is dropped
C17_WitnessDropped ==
    /\ npc = "normalized"
    /\ Len(nraw.elems) = 2
    /\ Len(RefKept(RefSequence(nraw))) = 1
    /\ nres.ok /\ nres.s # <<>>

----------------------------------------------------------------------------
(* Properties of the returned transcript text *)

Trimmed(s) == s # <<>> => (s[1] # " " /\ s[Len(s)] # " ")

\* C18: what fetch_transcript_any_version returns is a non-empty string
\* without leading or trailing blanks; an attempt whose text is empty after
\* trimming does not end the search; so load_youtube_docs never raises
\* "Transcript fetched but empty.".
C18_ReturnedTextNonEmptyTrimmed ==
    /\ pc = "assemble" => (text # <<>> /\ last = "text")
    /\ Trimmed(text)
    /\ \A i \in 1..Len(calls) : Trimmed(calls[i].got)
    /\ (calls # <<>> /\ last # "text") => (text = <<>> /\ pc # "assemble")
    /\ error # "EmptyContent"
\* the text is returned by a call that came after earlier attempts gave nothing
C18_Witness ==
    /\ pc = "assemble"
    /\ Len(calls) > 1
    /\ text = calls[Len(calls)].got
    /\ text # <<>>
\* the caption " b " was returned as "b"
C18_WitnessPadded == pc = "assemble" /\ text = <<"b">>

----------------------------------------------------------------------------
(* Termination and call counts of fetch_transcript_any_version *)

IsFetchOp(c) == c.op = "fetch"
IsTierCFetch(c) == c.tier = "C" /\ c.op = "fetch"
IsListing(c) == c.op = "list_transcripts"
\* the fetch has ended with a text (FetchFailed: it has ended with an error)
FetchReturned == pc = "assemble"

\* C19: for n preferred languages and a listing of m transcripts the fetch
\* makes at most n + 1 Tier A calls, one listing call and at most n + m Tier B
\* fetches, and at most 2 * 2 * n Tier C calls, never goes back to an earlier
\* tier, and ends in one of two ways only: a text is returned, or
\* TranscriptUnavailable is raised.
C19_BoundedCallsTwoOutcomes ==
    /\ Len(TierACalls) <= NLangs + 1
    /\ Len(SelectSeq(calls, IsListing)) <= 1
    /\ Len(SelectSeq(TierBCalls, IsFetchOp)) <= NLangs + listing
    /\ Len(SelectSeq(calls, IsTierCFetch)) <= 2 * 2 * NLangs
    /\ \A i, j \in 1..Len(calls) : i < j => TierRank(calls[i]) <= TierRank(calls[j])
    /\ FetchReturned => (text # <<>> /\ error = "none")
    /\ FetchFailed => error = "TranscriptUnavailable"

====
